---- MODULE Spec2Model ----
(***************************************************************************)
(* umya-spreadsheet: the package assembly routine writer::xlsx::write and  *)
(* the a:effectLst element parser, as state machines.                      *)
(*                                                                         *)
(* Spec       one run of xlsx::write over a bounded document; every part   *)
(*            writer call either succeeds or fails, and the environment    *)
(*            lets at most one call of a run fail.                         *)
(* SpecParse  one run of EffectList::set_attributes over a bounded event   *)
(*            stream.                                                      *)
(***************************************************************************)
EXTENDS Integers, Sequences, FiniteSets, TLC

VARIABLES
    spreadsheet,          \* the document: [macros, sheets]
    pc,                   \* position of xlsx::write
    i,                    \* sheet index of the for loop (0-based)
    j,                    \* index inside the graphic-frame / picture loop
    chart_id,
    drawing_id,
    comment_id,
    shared_string_table,  \* sheets whose strings have been interned
    stylesheet,           \* sheets whose styles have been interned
    arv,                  \* the zip archive: sequence of entries written
    calls,                \* part-writer calls made so far, with their arguments
    faulted,              \* a part-writer call of this run has failed
    finished,             \* arv.finish() has succeeded
    result,               \* "running", "Ok", "Err", "panic"
    reader,               \* the event stream set_attributes reads
    pos,                  \* number of events consumed from reader
    effect_list,          \* the EffectList being populated
    parse,                \* "idle", "loop", "returned", "panic_eof", "panic_err"
    source,               \* the EffectList built with the setters and written
    set_log,              \* the setters called on source, in call order
    writer,               \* the events EffectList::write_to(source) emitted
    rewritten,            \* the events write_to emitted for the re-parsed node
    label,                \* the BooleanValue val of a NoMultiLevelLabels
    label_writes,         \* its write_to calls: the node and the tag emitted
    label_parsed          \* the last set_attributes call: tag, outcome and node

docVars   == <<spreadsheet>>
writeVars == <<pc, i, j, chart_id, drawing_id, comment_id, shared_string_table,
               stylesheet, arv, calls, faulted, finished, result>>
parseVars == <<reader, pos, effect_list, parse>>
nodeVars  == <<source, set_log, writer, rewritten>>
labelVars == <<label, label_writes, label_parsed>>
vars      == <<spreadsheet, pc, i, j, chart_id, drawing_id, comment_id,
               shared_string_table, stylesheet, arv, calls, faulted, finished,
               result, reader, pos, effect_list, parse, source, set_log, writer,
               rewritten, label, label_writes, label_parsed>>

(***************************************************************************)
(* Bounds of the model.                                                    *)
(***************************************************************************)
MaxSheets == 2   \* sheets of a document
MaxObjects == 2  \* drawing objects (graphic frames and pictures) of a document
MaxEvents == 4   \* events of a stream handed to the parser

RECURSIVE TotalCharts(_, _)
TotalCharts(s, n) == IF n = 0 THEN 0 ELSE s[n].charts + TotalCharts(s, n - 1)

RECURSIVE TotalPics(_, _)
TotalPics(s, n) == IF n = 0 THEN 0 ELSE s[n].pics + TotalPics(s, n - 1)

Worksheets == [charts : 0..MaxObjects, pics : 0..MaxObjects, comments : BOOLEAN]

SheetCollections ==
    { s \in UNION { [1..n -> Worksheets] : n \in 0..MaxSheets } :
        TotalCharts(s, Len(s)) + TotalPics(s, Len(s)) <= MaxObjects }

Spreadsheets == [macros : BOOLEAN, sheets : SheetCollections]

(***************************************************************************)
(* The document accessors xlsx::write and the part writers call.           *)
(***************************************************************************)
get_sheet_count       == Len(spreadsheet.sheets)
get_sheet_collection  == spreadsheet.sheets
worksheet             == get_sheet_collection[i + 1]
get_has_macros        == spreadsheet.macros
get_graphic_frame_collection(ws) == ws.charts
get_picture_collection(ws)       == ws.pics
has_comments(ws)       == ws.comments
has_drawing_object(ws) ==
    get_graphic_frame_collection(ws) > 0 \/ get_picture_collection(ws) > 0

(***************************************************************************)
(* Archive paths: <<directory and stem, number>>; a fixed path has number  *)
(* 0.  An archive entry holds its path, the relationship ids its content   *)
(* references (refs), the relationship entries it declares when it is a    *)
(* .rels part (rels: [id, target]) and, for the two accumulator parts, the *)
(* accumulator content flushed into it (data).                             *)
(***************************************************************************)
Fixed(path)        == <<path, 0>>
SheetPath(n)       == <<"xl/worksheets/sheet", n>>
SheetRelsPath(n)   == <<"xl/worksheets/_rels/sheet", n>>
DrawingPath(n)     == <<"xl/drawings/drawing", n>>
DrawingRelsPath(n) == <<"xl/drawings/_rels/drawing", n>>
VmlPath(n)         == <<"xl/drawings/vmlDrawing", n>>
ChartPath(n)       == <<"xl/charts/chart", n>>
CommentPath(n)     == <<"xl/comments/comment", n>>
MediaPath(n)       == <<"xl/media/image", n>>

ContentTypesPath  == Fixed("[Content_Types].xml")
AppPath           == Fixed("docProps/app.xml")
CorePath          == Fixed("docProps/core.xml")
VbaPath           == Fixed("xl/vbaProject.bin")
RootRelsPath      == Fixed("_rels/.rels")
WorkbookRelsPath  == Fixed("xl/_rels/workbook.xml.rels")
ThemePath         == Fixed("xl/theme/theme1.xml")
WorkbookPath      == Fixed("xl/workbook.xml")
SharedStringsPath == Fixed("xl/sharedStrings.xml")
StylesPath        == Fixed("xl/styles.xml")

Entry(path, refs, rels, data) ==
    [path |-> path, refs |-> refs, rels |-> rels, data |-> data]
Plain(path)        == Entry(path, {}, {}, {})
Rel(id, target)    == [id |-> id, target |-> target]
RId(kind, n)       == <<kind, n>>

\* the .rels part that is the sibling of a part
RelsPartOf(path) ==
    CASE path = WorkbookPath                -> WorkbookRelsPath
      [] path[1] = "xl/worksheets/sheet"    -> SheetRelsPath(path[2])
      [] path[1] = "xl/drawings/drawing"    -> DrawingRelsPath(path[2])
      [] OTHER                              -> RootRelsPath

\* pictures declared on the sheets before sheet number n (1-based)
PicsBefore(n) == TotalPics(get_sheet_collection, n - 1)

(***************************************************************************)
(* The part writers: the entries each one adds to the archive when it      *)
(* succeeds.                                                               *)
(***************************************************************************)
content_types_write == << Plain(ContentTypesPath) >>
doc_props_app_write == << Plain(AppPath) >>
doc_props_core_write == << Plain(CorePath) >>
vba_project_bin_write == IF get_has_macros THEN << Plain(VbaPath) >> ELSE << >>
rels_write ==
    << Entry(RootRelsPath, {},
             { Rel(RId("officeDocument", 0), WorkbookPath),
               Rel(RId("core-properties", 0), CorePath),
               Rel(RId("extended-properties", 0), AppPath) }, {}) >>
workbook_rels_write ==
    << Entry(WorkbookRelsPath, {},
             { Rel(RId("sheet", n), SheetPath(n)) : n \in 1..get_sheet_count }
               \cup { Rel(RId("theme", 0), ThemePath),
                      Rel(RId("styles", 0), StylesPath),
                      Rel(RId("sharedStrings", 0), SharedStringsPath) }, {}) >>
theme_write == << Plain(ThemePath) >>
workbook_write ==
    << Entry(WorkbookPath, { RId("sheet", n) : n \in 1..get_sheet_count }, {}, {}) >>

worksheet_write(ws, idx) ==
    << Entry(SheetPath(idx + 1),
             (IF has_drawing_object(ws) THEN { RId("drawing", 0) } ELSE {})
               \cup (IF has_comments(ws) THEN { RId("legacyDrawing", 0) } ELSE {}),
             {}, {}) >>

worksheet_rels_entries(ws, p_drawing_id, p_comment_id) ==
    (IF has_drawing_object(ws)
        THEN { Rel(RId("drawing", 0), DrawingPath(p_drawing_id)) } ELSE {})
    \cup (IF has_comments(ws)
        THEN { Rel(RId("legacyDrawing", 0), VmlPath(p_comment_id)),
               Rel(RId("comments", 0), CommentPath(p_comment_id)) } ELSE {})

worksheet_rels_write(ws, p_worksheet_id, p_drawing_id, p_comment_id) ==
    IF worksheet_rels_entries(ws, p_drawing_id, p_comment_id) = {} THEN << >>
    ELSE << Entry(SheetRelsPath(p_worksheet_id), {},
                  worksheet_rels_entries(ws, p_drawing_id, p_comment_id), {}) >>

drawing_write(ws, p_drawing_id) ==
    IF ~has_drawing_object(ws) THEN << >>
    ELSE << Entry(DrawingPath(p_drawing_id),
                  { RId("chart", k) : k \in 1..get_graphic_frame_collection(ws) }
                    \cup { RId("image", k) : k \in 1..get_picture_collection(ws) },
                  {}, {}) >>

drawing_rels_write(ws, sheet_no, p_drawing_id, p_chart_id) ==
    IF ~has_drawing_object(ws) THEN << >>
    ELSE << Entry(DrawingRelsPath(p_drawing_id), {},
                  { Rel(RId("chart", k), ChartPath(p_chart_id + k - 1)) :
                        k \in 1..get_graphic_frame_collection(ws) }
                    \cup { Rel(RId("image", k), MediaPath(PicsBefore(sheet_no) + k)) :
                        k \in 1..get_picture_collection(ws) },
                  {}) >>

comment_write(ws, p_comment_id) ==
    IF has_comments(ws) THEN << Plain(CommentPath(p_comment_id)) >> ELSE << >>

vml_drawing_write(ws, p_comment_id) ==
    IF has_comments(ws) THEN << Plain(VmlPath(p_comment_id)) >> ELSE << >>

chart_write(p_chart_id) == << Plain(ChartPath(p_chart_id)) >>

media_write(sheet_no, k) == << Plain(MediaPath(PicsBefore(sheet_no) + k)) >>

shared_strings_write(table) == << Entry(SharedStringsPath, {}, {}, table) >>
styles_write(styles)        == << Entry(StylesPath, {}, {}, styles) >>

(***************************************************************************)
(* xlsx::write, statement by statement.                                    *)
(***************************************************************************)
\* a call: the writer, the sheet (1-based) and the item of the sheet it is made
\* for (0 when none), the ids handed to it (0 when none) and its outcome
Call(fn, sheet_no, item, d, c, ch, ok) ==
    [fn |-> fn, sheet |-> sheet_no, item |-> item, drawing_id |-> d,
     comment_id |-> c, chart_id |-> ch, ok |-> ok]

\* The outcomes a part-writer call can have: a call that has something to
\* write may fail, as long as no earlier call of the run has failed.
Outcomes(entries) ==
    IF faulted \/ entries = << >> THEN { TRUE } ELSE { TRUE, FALSE }

\* `let _ = part::write(..)`: the call is made, its entries reach the archive
\* when it succeeds, and its result is dropped.
Invoke(fn, sheet_no, item, d, c, ch, entries, ok) ==
    /\ calls' = Append(calls, Call(fn, sheet_no, item, d, c, ch, ok))
    /\ arv' = IF ok THEN arv \o entries ELSE arv
    /\ faulted' = (faulted \/ ~ok)

\* where write continues after a call whose result it drops
Discarded(ok, next) == next

\* a dropped result where the code unwraps
Unwrapped_dropped(ok, next) == next

\* where write continues after a call whose result is unwrapped
Unwrapped(ok, next) == IF ok THEN next ELSE "panicked"
UnwrappedResult(ok) == IF ok THEN result ELSE "panic"

\* where write continues after `arv.finish()?`
Propagated(ok, next) == IF ok THEN next ELSE "returned"

\* EffectList::default(): no child
EffectListDefault == [glow |-> FALSE, outer_shadow |-> FALSE, soft_edge |-> FALSE]

\* BooleanValue::default(): no value set; get_value then gives false
BooleanValueDefault == [has_value |-> FALSE, value |-> FALSE]

\* no element node is being built or written
NodeIdle ==
    /\ source = EffectListDefault
    /\ set_log = << >>
    /\ writer = << >>
    /\ rewritten = << >>

LabelIdle ==
    /\ label = BooleanValueDefault
    /\ label_writes = << >>
    /\ label_parsed = << >>

Init ==
    /\ spreadsheet \in Spreadsheets
    /\ pc = "content_types"
    /\ i = 0
    /\ j = 0
    /\ chart_id = 0
    /\ drawing_id = 0
    /\ comment_id = 0
    /\ shared_string_table = {}
    /\ stylesheet = {}
    /\ arv = << >>
    /\ calls = << >>
    /\ faulted = FALSE
    /\ finished = FALSE
    /\ result = "running"
    /\ reader = << >>
    /\ pos = 0
    /\ effect_list = [glow |-> FALSE, outer_shadow |-> FALSE, soft_edge |-> FALSE]
    /\ parse = "idle"
    /\ NodeIdle
    /\ LabelIdle

\* a statement `let _ = part::write(..)` outside the sheet loop
FixedStep(from, next, fn, entries) ==
    /\ pc = from
    /\ \E ok \in Outcomes(entries) :
        /\ Invoke(fn, 0, 0, 0, 0, 0, entries, ok)
        /\ pc' = Discarded(ok, next)
    /\ UNCHANGED <<spreadsheet, i, j, chart_id, drawing_id, comment_id,
                   shared_string_table, stylesheet, finished, result, parseVars, nodeVars, labelVars>>

WriteContentTypes ==
    FixedStep("content_types", "doc_props_app", "content_types", content_types_write)

WriteDocPropsApp ==
    FixedStep("doc_props_app", "doc_props_core", "doc_props_app", doc_props_app_write)

\* doc_props_core::write unwraps the result of make_file_from_writer
WriteDocPropsCore ==
    /\ pc = "doc_props_core"
    /\ \E ok \in Outcomes(doc_props_core_write) :
        /\ Invoke("doc_props_core", 0, 0, 0, 0, 0, doc_props_core_write, ok)
        /\ pc' = Unwrapped(ok, "vba_project_bin")
        /\ result' = UnwrappedResult(ok)
    /\ UNCHANGED <<spreadsheet, i, j, chart_id, drawing_id, comment_id,
                   shared_string_table, stylesheet, finished, parseVars, nodeVars, labelVars>>

WriteVbaProjectBin ==
    FixedStep("vba_project_bin", "rels", "vba_project_bin", vba_project_bin_write)

WriteRels ==
    FixedStep("rels", "workbook_rels", "rels", rels_write)

WriteWorkbookRels ==
    FixedStep("workbook_rels", "theme", "workbook_rels", workbook_rels_write)

WriteTheme ==
    FixedStep("theme", "workbook", "theme", theme_write)

WriteWorkbook ==
    FixedStep("workbook", "setup", "workbook", workbook_write)

\* let mut chart_id = 1; .. stylesheet.init_setup();
Setup ==
    /\ pc = "setup"
    /\ chart_id' = 1
    /\ drawing_id' = 1
    /\ comment_id' = 1
    /\ shared_string_table' = {}
    /\ stylesheet' = {}
    /\ i' = 0
    /\ pc' = "for_sheet"
    /\ UNCHANGED <<spreadsheet, j, arv, calls, faulted, finished, result, parseVars, nodeVars, labelVars>>

\* leaving the sheet loop past the shared-string flush
EndSheets_skip ==
    /\ pc = "for_sheet"
    /\ ~(i < Len(spreadsheet.sheets))
    /\ pc' = "styles"
    /\ UNCHANGED <<spreadsheet, i, j, chart_id, drawing_id, comment_id,
                   shared_string_table, stylesheet, arv, calls, faulted, finished,
                   result, parseVars, nodeVars, labelVars>>

\* for i in 0..spreadsheet.get_sheet_count()
NextSheet ==
    /\ pc = "for_sheet"
    /\ i < get_sheet_count
    /\ pc' = "worksheet"
    /\ UNCHANGED <<spreadsheet, i, j, chart_id, drawing_id, comment_id,
                   shared_string_table, stylesheet, arv, calls, faulted, finished,
                   result, parseVars, nodeVars, labelVars>>

EndSheets ==
    /\ pc = "for_sheet"
    /\ ~(i < get_sheet_count)
    /\ pc' = "shared_strings"
    /\ UNCHANGED <<spreadsheet, i, j, chart_id, drawing_id, comment_id,
                   shared_string_table, stylesheet, arv, calls, faulted, finished,
                   result, parseVars, nodeVars, labelVars>>

\* worksheet::write serializes the sheet, interning its strings and styles,
\* and then creates the archive entry
WriteWorksheet ==
    /\ pc = "worksheet"
    /\ \E ok \in Outcomes(worksheet_write(worksheet, i)) :
        /\ Invoke("worksheet", i + 1, 0, 0, 0, 0, worksheet_write(worksheet, i), ok)
        /\ pc' = Discarded(ok, "worksheet_rels")
    /\ shared_string_table' = shared_string_table \cup { i + 1 }
    /\ stylesheet' = stylesheet \cup { i + 1 }
    /\ UNCHANGED <<spreadsheet, i, j, chart_id, drawing_id, comment_id,
                   finished, result, parseVars, nodeVars, labelVars>>

WriteWorksheetRels ==
    /\ pc = "worksheet_rels"
    /\ \E ok \in Outcomes(worksheet_rels_write(worksheet, i + 1, drawing_id, comment_id)) :
        /\ Invoke("worksheet_rels", i + 1, 0, drawing_id, comment_id, 0,
                  worksheet_rels_write(worksheet, i + 1, drawing_id, comment_id), ok)
        /\ pc' = Discarded(ok, "drawing")
    /\ UNCHANGED <<spreadsheet, i, j, chart_id, drawing_id, comment_id,
                   shared_string_table, stylesheet, finished, result, parseVars, nodeVars, labelVars>>

\* drawing_id advanced as soon as the drawing part is written
WriteDrawing_advancing ==
    /\ pc = "drawing"
    /\ \E ok \in Outcomes(drawing_write(worksheet, drawing_id)) :
        /\ Invoke("drawing", i + 1, 0, drawing_id, 0, 0,
                  drawing_write(worksheet, drawing_id), ok)
        /\ pc' = Discarded(ok, "drawing_rels")
    /\ drawing_id' = IF has_drawing_object(worksheet) THEN drawing_id + 1 ELSE drawing_id
    /\ UNCHANGED <<spreadsheet, i, j, chart_id, comment_id,
                   shared_string_table, stylesheet, finished, result, parseVars,
                   nodeVars, labelVars>>

WriteDrawing ==
    /\ pc = "drawing"
    /\ \E ok \in Outcomes(drawing_write(worksheet, drawing_id)) :
        /\ Invoke("drawing", i + 1, 0, drawing_id, 0, 0,
                  drawing_write(worksheet, drawing_id), ok)
        /\ pc' = Discarded(ok, "drawing_rels")
    /\ UNCHANGED <<spreadsheet, i, j, chart_id, drawing_id, comment_id,
                   shared_string_table, stylesheet, finished, result, parseVars, nodeVars, labelVars>>

\* the drawing relationship writer handed the first chart id of the run
WriteDrawingRels_from_one ==
    /\ pc = "drawing_rels"
    /\ \E ok \in Outcomes(drawing_rels_write(worksheet, i + 1, drawing_id, 1)) :
        /\ Invoke("drawing_rels", i + 1, 0, drawing_id, 0, 1,
                  drawing_rels_write(worksheet, i + 1, drawing_id, 1), ok)
        /\ pc' = Discarded(ok, "comment")
    /\ UNCHANGED <<spreadsheet, i, j, chart_id, drawing_id, comment_id,
                   shared_string_table, stylesheet, finished, result, parseVars,
                   nodeVars, labelVars>>

WriteDrawingRels ==
    /\ pc = "drawing_rels"
    /\ \E ok \in Outcomes(drawing_rels_write(worksheet, i + 1, drawing_id, chart_id)) :
        /\ Invoke("drawing_rels", i + 1, 0, drawing_id, 0, chart_id,
                  drawing_rels_write(worksheet, i + 1, drawing_id, chart_id), ok)
        /\ pc' = Discarded(ok, "comment")
    /\ UNCHANGED <<spreadsheet, i, j, chart_id, drawing_id, comment_id,
                   shared_string_table, stylesheet, finished, result, parseVars, nodeVars, labelVars>>

WriteComment ==
    /\ pc = "comment"
    /\ \E ok \in Outcomes(comment_write(worksheet, comment_id)) :
        /\ Invoke("comment", i + 1, 0, 0, comment_id, 0,
                  comment_write(worksheet, comment_id), ok)
        /\ pc' = Discarded(ok, "vml_drawing")
    /\ UNCHANGED <<spreadsheet, i, j, chart_id, drawing_id, comment_id,
                   shared_string_table, stylesheet, finished, result, parseVars, nodeVars, labelVars>>

WriteVmlDrawing ==
    /\ pc = "vml_drawing"
    /\ \E ok \in Outcomes(vml_drawing_write(worksheet, comment_id)) :
        /\ Invoke("vml_drawing", i + 1, 0, 0, comment_id, 0,
                  vml_drawing_write(worksheet, comment_id), ok)
        /\ pc' = Discarded(ok, "advance_drawing_id")
    /\ UNCHANGED <<spreadsheet, i, j, chart_id, drawing_id, comment_id,
                   shared_string_table, stylesheet, finished, result, parseVars, nodeVars, labelVars>>

\* drawing_id advanced for every sheet / for no sheet
NextDrawingId_always(ws, id) == id + 1
NextDrawingId_never(ws, id) == id

\* if worksheet.has_drawing_object() { drawing_id += 1; }
NextDrawingId(ws, id) == IF has_drawing_object(ws) THEN id + 1 ELSE id

AdvanceDrawingId ==
    /\ pc = "advance_drawing_id"
    /\ drawing_id' = NextDrawingId(worksheet, drawing_id)
    /\ pc' = "advance_comment_id"
    /\ UNCHANGED <<spreadsheet, i, j, chart_id, comment_id, shared_string_table,
                   stylesheet, arv, calls, faulted, finished, result, parseVars, nodeVars, labelVars>>

\* comment_id advanced for every sheet
NextCommentId_always(ws, id) == id + 1

\* if worksheet.has_comments() { comment_id += 1; }
NextCommentId(ws, id) == IF has_comments(ws) THEN id + 1 ELSE id

AdvanceCommentId ==
    /\ pc = "advance_comment_id"
    /\ comment_id' = NextCommentId(worksheet, comment_id)
    /\ j' = 0
    /\ pc' = "for_graphic_frame"
    /\ UNCHANGED <<spreadsheet, i, chart_id, drawing_id, shared_string_table,
                   stylesheet, arv, calls, faulted, finished, result, parseVars, nodeVars, labelVars>>

\* chart_id advanced by two after a chart
NextChartId_by_two(id) == id + 2

\* chart_id left as it is after a chart
NextChartId_stuck(id) == id

\* chart_id += 1;
NextChartId(id) == id + 1

\* for graphic_frame in ..get_graphic_frame_collection() { chart::write; chart_id += 1 }
WriteChart ==
    /\ pc = "for_graphic_frame"
    /\ j < get_graphic_frame_collection(worksheet)
    /\ \E ok \in Outcomes(chart_write(chart_id)) :
        /\ Invoke("chart", i + 1, j + 1, 0, 0, chart_id, chart_write(chart_id), ok)
        /\ pc' = Discarded(ok, "for_graphic_frame")
    /\ chart_id' = NextChartId(chart_id)
    /\ j' = j + 1
    /\ UNCHANGED <<spreadsheet, i, drawing_id, comment_id, shared_string_table,
                   stylesheet, finished, result, parseVars, nodeVars, labelVars>>

EndGraphicFrames ==
    /\ pc = "for_graphic_frame"
    /\ ~(j < get_graphic_frame_collection(worksheet))
    /\ j' = 0
    /\ pc' = "for_picture"
    /\ UNCHANGED <<spreadsheet, i, chart_id, drawing_id, comment_id,
                   shared_string_table, stylesheet, arv, calls, faulted, finished,
                   result, parseVars, nodeVars, labelVars>>

\* for picture in ..get_picture_collection() { media::write }
WriteMedia ==
    /\ pc = "for_picture"
    /\ j < get_picture_collection(worksheet)
    /\ \E ok \in Outcomes(media_write(i + 1, j + 1)) :
        /\ Invoke("media", i + 1, j + 1, 0, 0, 0, media_write(i + 1, j + 1), ok)
        /\ pc' = Discarded(ok, "for_picture")
    /\ j' = j + 1
    /\ UNCHANGED <<spreadsheet, i, chart_id, drawing_id, comment_id,
                   shared_string_table, stylesheet, finished, result, parseVars, nodeVars, labelVars>>

\* the end of one iteration of the sheet loop
EndPictures ==
    /\ pc = "for_picture"
    /\ ~(j < get_picture_collection(worksheet))
    /\ j' = 0
    /\ i' = i + 1
    /\ pc' = "for_sheet"
    /\ UNCHANGED <<spreadsheet, chart_id, drawing_id, comment_id,
                   shared_string_table, stylesheet, arv, calls, faulted, finished,
                   result, parseVars, nodeVars, labelVars>>

\* let _ = shared_strings::write(&shared_string_table, &mut arv).unwrap();
WriteSharedStrings ==
    /\ pc = "shared_strings"
    /\ \E ok \in Outcomes(shared_strings_write(shared_string_table)) :
        /\ Invoke("shared_strings", 0, 0, 0, 0, 0,
                  shared_strings_write(shared_string_table), ok)
        /\ pc' = Unwrapped(ok, "styles")
        /\ result' = UnwrappedResult(ok)
    /\ UNCHANGED <<spreadsheet, i, j, chart_id, drawing_id, comment_id,
                   shared_string_table, stylesheet, finished, parseVars, nodeVars, labelVars>>

\* let _ = styles::write(&stylesheet, &mut arv).unwrap();
WriteStyles ==
    /\ pc = "styles"
    /\ \E ok \in Outcomes(styles_write(stylesheet)) :
        /\ Invoke("styles", 0, 0, 0, 0, 0, styles_write(stylesheet), ok)
        /\ pc' = Unwrapped(ok, "finish")
        /\ result' = UnwrappedResult(ok)
    /\ UNCHANGED <<spreadsheet, i, j, chart_id, drawing_id, comment_id,
                   shared_string_table, stylesheet, finished, parseVars, nodeVars, labelVars>>

\* arv.finish()?; Ok(())
Finish ==
    /\ pc = "finish"
    /\ \E ok \in Outcomes(arv) :
        /\ calls' = Append(calls, Call("finish", 0, 0, 0, 0, 0, ok))
        /\ faulted' = (faulted \/ ~ok)
        /\ finished' = ok
        /\ result' = IF ok THEN "Ok" ELSE "Err"
        /\ pc' = Propagated(ok, "returned")
    /\ UNCHANGED <<spreadsheet, i, j, chart_id, drawing_id, comment_id,
                   shared_string_table, stylesheet, arv, parseVars, nodeVars, labelVars>>

Next ==
    \/ WriteContentTypes \/ WriteDocPropsApp \/ WriteDocPropsCore
    \/ WriteVbaProjectBin \/ WriteRels \/ WriteWorkbookRels \/ WriteTheme
    \/ WriteWorkbook \/ Setup \/ NextSheet \/ EndSheets
    \/ WriteWorksheet \/ WriteWorksheetRels \/ WriteDrawing \/ WriteDrawingRels
    \/ WriteComment \/ WriteVmlDrawing \/ AdvanceDrawingId \/ AdvanceCommentId
    \/ WriteChart \/ EndGraphicFrames \/ WriteMedia \/ EndPictures
    \/ WriteSharedStrings \/ WriteStyles \/ Finish

Spec == Init /\ [][Next]_vars

(***************************************************************************)
(* EffectList::set_attributes.  The reader yields the events that follow   *)
(* the opening a:effectLst tag; reading past the last event yields Eof.    *)
(***************************************************************************)
Ev(type, name) == [type |-> type, name |-> name]

Events ==
    { Ev("Start", n) : n \in { "a:glow", "a:outerShdw", "a:softEdge", "a:ext" } }
    \cup { Ev("Empty", n) : n \in { "a:glow", "a:outerShdw", "a:softEdge", "a:ext" } }
    \cup { Ev("End", n) :
             n \in { "a:effectLst", "a:glow", "a:outerShdw", "a:softEdge", "a:ext" } }
    \cup { Ev("Text", ""), Ev("Err", "") }

\* The streams a reader can yield: a closing tag closes the innermost open
\* element (the reader reports any other closing tag as an error), an error
\* ends the stream, and what follows the closing a:effectLst tag belongs to
\* the enclosing element.
RECURSIVE Producible(_, _, _)
Producible(s, k, open) ==
    IF k > Len(s) \/ open = << >> THEN TRUE
    ELSE CASE s[k].type = "Start" -> Producible(s, k + 1, Append(open, s[k].name))
           [] s[k].type = "End"   ->
                  /\ s[k].name = open[Len(open)]
                  /\ Producible(s, k + 1, SubSeq(open, 1, Len(open) - 1))
           [] s[k].type = "Err"   -> k = Len(s)
           [] OTHER               -> Producible(s, k + 1, open)

Streams ==
    { s \in UNION { [1..n -> Events] : n \in 0..MaxEvents } :
        Producible(s, 1, << "a:effectLst" >>) }

\* read_event: the next event, Eof once the stream is exhausted
read_event(s, p) == IF p < Len(s) THEN s[p + 1] ELSE Ev("Eof", "")

\* Glow::set_attributes and OuterShadow::set_attributes read on to their own
\* closing tag: the position after it, or the panic they end in.
RECURSIVE child_set_attributes(_, _, _)
child_set_attributes(s, p, tag) ==
    LET e == read_event(s, p) IN
    CASE e.type = "Eof" -> [pos |-> p, parse |-> "panic_eof"]
      [] e.type = "Err" -> [pos |-> p + 1, parse |-> "panic_err"]
      [] e.type = "End" /\ e.name = tag -> [pos |-> p + 1, parse |-> "loop"]
      [] OTHER -> child_set_attributes(s, p + 1, tag)

InitParse ==
    /\ spreadsheet = [macros |-> FALSE, sheets |-> << >>]
    /\ pc = "idle"
    /\ i = 0
    /\ j = 0
    /\ chart_id = 0
    /\ drawing_id = 0
    /\ comment_id = 0
    /\ shared_string_table = {}
    /\ stylesheet = {}
    /\ arv = << >>
    /\ calls = << >>
    /\ faulted = FALSE
    /\ finished = FALSE
    /\ result = "running"
    /\ reader \in Streams
    /\ pos = 0
    /\ effect_list = [glow |-> FALSE, outer_shadow |-> FALSE, soft_edge |-> FALSE]
    /\ parse = "loop"
    /\ NodeIdle
    /\ LabelIdle

\* Ok(Event::Empty(ref e)): a:softEdge is the one child read here
set_on_empty(el, name) ==
    IF name = "a:softEdge" THEN [el EXCEPT !.soft_edge = TRUE] ELSE el

ReadEmpty ==
    /\ parse = "loop"
    /\ read_event(reader, pos).type = "Empty"
    /\ effect_list' = set_on_empty(effect_list, read_event(reader, pos).name)
    /\ pos' = pos + 1
    /\ UNCHANGED <<reader, parse, docVars, writeVars, nodeVars, labelVars>>

\* a start arm that reads a:glow alone
is_start_child_glow_only(name) == name = "a:glow"

\* Ok(Event::Start(ref e)): a:glow and a:outerShdw are the children read here
is_start_child(name) == name \in { "a:glow", "a:outerShdw" }

set_on_start(el, name) ==
    CASE name = "a:glow"      -> [el EXCEPT !.glow = TRUE]
      [] name = "a:outerShdw" -> [el EXCEPT !.outer_shadow = TRUE]
      [] OTHER                -> el

ReadStart ==
    /\ parse = "loop"
    /\ read_event(reader, pos).type = "Start"
    /\ LET name  == read_event(reader, pos).name
           child == child_set_attributes(reader, pos + 1, name)
       IN  IF is_start_child(name)
           THEN /\ pos' = child.pos
                /\ parse' = child.parse
                /\ effect_list' = IF child.parse = "loop"
                                  THEN set_on_start(effect_list, name)
                                  ELSE effect_list
           ELSE /\ pos' = pos + 1
                /\ UNCHANGED <<parse, effect_list>>
    /\ UNCHANGED <<reader, docVars, writeVars, nodeVars, labelVars>>

\* Ok(Event::End(ref e)): b"a:effectLst" => return
is_own_end(name) == name = "a:effectLst"

ReadEnd ==
    /\ parse = "loop"
    /\ read_event(reader, pos).type = "End"
    /\ pos' = pos + 1
    /\ parse' = IF is_own_end(read_event(reader, pos).name) THEN "returned" ELSE "loop"
    /\ UNCHANGED <<reader, effect_list, docVars, writeVars, nodeVars, labelVars>>

\* Ok(Event::Eof) => panic!("Error not find {} end element", "a:effectLst")
on_eof == "panic_eof"

ReadEof ==
    /\ parse = "loop"
    /\ read_event(reader, pos).type = "Eof"
    /\ parse' = on_eof
    /\ UNCHANGED <<reader, pos, effect_list, docVars, writeVars, nodeVars, labelVars>>

\* Err(e) => panic!("Error at position {}: {:?}", ..)
on_err == "panic_err"

ReadErr ==
    /\ parse = "loop"
    /\ read_event(reader, pos).type = "Err"
    /\ pos' = pos + 1
    /\ parse' = on_err
    /\ UNCHANGED <<reader, effect_list, docVars, writeVars, nodeVars, labelVars>>

\* _ => (): any other event is skipped
ReadOther ==
    /\ parse = "loop"
    /\ read_event(reader, pos).type = "Text"
    /\ pos' = pos + 1
    /\ UNCHANGED <<reader, parse, effect_list, docVars, writeVars, nodeVars, labelVars>>

NextParse ==
    ReadEmpty \/ ReadStart \/ ReadEnd \/ ReadEof \/ ReadErr \/ ReadOther

SpecParse == InitParse /\ [][NextParse]_vars

(***************************************************************************)
(* EffectList built with its setters, written with write_to, parsed back   *)
(* and written again.                                                      *)
(***************************************************************************)
MaxSets == 3     \* setter calls on one EffectList

\* Glow::write_to and OuterShadow::write_to: an opening tag, the colour the
\* effect holds and a closing tag; SoftEdge::write_to: one self-closing tag.
glow_write_to         == << Ev("Start", "a:glow"), Ev("Empty", "a:srgbClr"),
                            Ev("End", "a:glow") >>
outer_shadow_write_to == << Ev("Start", "a:outerShdw"), Ev("Empty", "a:srgbClr"),
                            Ev("End", "a:outerShdw") >>
soft_edge_write_to    == << Ev("Empty", "a:softEdge") >>

\* write_to with soft_edge written before glow and outer_shadow
write_to_soft_first(el) ==
    << Ev("Start", "a:effectLst") >>
    \o (IF el.soft_edge THEN soft_edge_write_to ELSE << >>)
    \o (IF el.glow THEN glow_write_to ELSE << >>)
    \o (IF el.outer_shadow THEN outer_shadow_write_to ELSE << >>)
    \o << Ev("End", "a:effectLst") >>

\* write_to with a self-closing tag for a node without child
write_to_self_closing(el) ==
    IF el = EffectListDefault THEN << Ev("Empty", "a:effectLst") >>
    ELSE << Ev("Start", "a:effectLst") >>
         \o (IF el.glow THEN glow_write_to ELSE << >>)
         \o (IF el.outer_shadow THEN outer_shadow_write_to ELSE << >>)
         \o (IF el.soft_edge THEN soft_edge_write_to ELSE << >>)
         \o << Ev("End", "a:effectLst") >>

\* EffectList::write_to: write_start_tag(.., false), the children that are
\* Some in the order glow, outer_shadow, soft_edge, write_end_tag
write_to(el) ==
    << Ev("Start", "a:effectLst") >>
    \o (IF el.glow THEN glow_write_to ELSE << >>)
    \o (IF el.outer_shadow THEN outer_shadow_write_to ELSE << >>)
    \o (IF el.soft_edge THEN soft_edge_write_to ELSE << >>)
    \o << Ev("End", "a:effectLst") >>

InitEffect ==
    /\ spreadsheet = [macros |-> FALSE, sheets |-> << >>]
    /\ pc = "idle"
    /\ i = 0
    /\ j = 0
    /\ chart_id = 0
    /\ drawing_id = 0
    /\ comment_id = 0
    /\ shared_string_table = {}
    /\ stylesheet = {}
    /\ arv = << >>
    /\ calls = << >>
    /\ faulted = FALSE
    /\ finished = FALSE
    /\ result = "running"
    /\ reader = << >>
    /\ pos = 0
    /\ effect_list = EffectListDefault
    /\ parse = "idle"
    /\ NodeIdle
    /\ LabelIdle

\* pub fn set_glow(&mut self, value:Glow) { self.glow = Some(value); }
\* (setters are called on the node that is still to be written)
SetGlow ==
    /\ parse = "idle"
    /\ writer = << >>
    /\ Len(set_log) < MaxSets
    /\ source' = [source EXCEPT !.glow = TRUE]
    /\ set_log' = Append(set_log, "set_glow")
    /\ UNCHANGED <<writer, rewritten, parseVars, docVars, writeVars, labelVars>>

\* pub fn set_outer_shadow(&mut self, value:OuterShadow)
SetOuterShadow ==
    /\ parse = "idle"
    /\ writer = << >>
    /\ Len(set_log) < MaxSets
    /\ source' = [source EXCEPT !.outer_shadow = TRUE]
    /\ set_log' = Append(set_log, "set_outer_shadow")
    /\ UNCHANGED <<writer, rewritten, parseVars, docVars, writeVars, labelVars>>

\* pub fn set_soft_edge(&mut self, value:SoftEdge)
SetSoftEdge ==
    /\ parse = "idle"
    /\ writer = << >>
    /\ Len(set_log) < MaxSets
    /\ source' = [source EXCEPT !.soft_edge = TRUE]
    /\ set_log' = Append(set_log, "set_soft_edge")
    /\ UNCHANGED <<writer, rewritten, parseVars, docVars, writeVars, labelVars>>

\* source.write_to(&mut writer)
WriteTo ==
    /\ parse = "idle"
    /\ writer = << >>
    /\ writer' = write_to(source)
    /\ UNCHANGED <<source, set_log, rewritten, parseVars, docVars, writeVars, labelVars>>

\* the caller reads the opening tag of what was written and calls
\* set_attributes on a fresh EffectList with the reader behind that tag
BeginParse ==
    /\ parse = "idle"
    /\ writer # << >>
    /\ reader' = Tail(writer)
    /\ pos' = 0
    /\ effect_list' = EffectListDefault
    /\ parse' = IF Head(writer).type = "Start" THEN "loop" ELSE "returned"
    /\ UNCHANGED <<nodeVars, docVars, writeVars, labelVars>>

\* the parsed node written in its turn
WriteAgain ==
    /\ parse = "returned"
    /\ writer # << >>
    /\ rewritten = << >>
    /\ rewritten' = write_to(effect_list)
    /\ UNCHANGED <<source, set_log, writer, parseVars, docVars, writeVars, labelVars>>

NextEffect ==
    \/ SetGlow \/ SetOuterShadow \/ SetSoftEdge \/ WriteTo \/ BeginParse
    \/ ReadEmpty \/ ReadStart \/ ReadEnd \/ WriteAgain

SpecEffect == InitEffect /\ [][NextEffect]_vars

(***************************************************************************)
(* NoMultiLevelLabels (c:noMultiLvlLbl): one BooleanValue attribute, val.   *)
(***************************************************************************)
MaxWrites == 3   \* write_to calls that are logged

\* BooleanValue: the value, false while none is set
get_value(v) == v.value

set_value(v, value) == [has_value |-> TRUE, value |-> value]

\* the textual form of the value: "1" or "0"
get_value_string(v) == IF get_value(v) THEN "1" ELSE "0"

\* the value read from its textual form
set_value_string(v, str) == set_value(v, str = "1")

\* a tag as write_start_tag gets it and as the reader hands it out
Tag(name, attributes, empty) ==
    [name |-> name, attributes |-> attributes, empty |-> empty]

\* get_attribute(e, name): Some(value) of the first attribute of that name,
\* None without one; an Option is a sequence of at most one value
get_attribute(e, name) ==
    LET at == SelectSeq(e.attributes, LAMBDA a : a[1] = name)
    IN  IF at = << >> THEN << >> ELSE << at[1][2] >>

\* pub fn get_val(&self)-> &bool
get_val(self) == get_value(self)

\* pub fn set_val(&mut self, value:bool)
set_val(self, value) == set_value(self, value)

\* a write_to that writes the value under another attribute name
NoMultiLevelLabels_write_to_renamed(self) ==
    Tag("c:noMultiLvlLbl", << << "value", get_value_string(self) >> >>, TRUE)

\* write_start_tag(writer, "c:noMultiLvlLbl",
\*     vec![("val", &self.val.get_value_string())], true)
NoMultiLevelLabels_write_to(self) ==
    Tag("c:noMultiLvlLbl", << << "val", get_value_string(self) >> >>, TRUE)

\* self.val.set_value_string(get_attribute(e, b"val").unwrap()): the node,
\* or the panic of unwrap on None
NoMultiLevelLabels_set_attributes(self, e) ==
    IF get_attribute(e, "val") = << >>
    THEN [outcome |-> "panic", node |-> self]
    ELSE [outcome |-> "ok", node |-> set_value_string(self, get_attribute(e, "val")[1])]

\* the tags set_attributes is called with: the ones written, and a
\* c:noMultiLvlLbl tag without attribute
LabelTags ==
    { label_writes[k].tag : k \in 1..Len(label_writes) }
    \cup { Tag("c:noMultiLvlLbl", << >>, TRUE) }

LabelPanicked == label_parsed # << >> /\ label_parsed[1].outcome = "panic"

InitLabels ==
    /\ spreadsheet = [macros |-> FALSE, sheets |-> << >>]
    /\ pc = "idle"
    /\ i = 0
    /\ j = 0
    /\ chart_id = 0
    /\ drawing_id = 0
    /\ comment_id = 0
    /\ shared_string_table = {}
    /\ stylesheet = {}
    /\ arv = << >>
    /\ calls = << >>
    /\ faulted = FALSE
    /\ finished = FALSE
    /\ result = "running"
    /\ reader = << >>
    /\ pos = 0
    /\ effect_list = EffectListDefault
    /\ parse = "idle"
    /\ NodeIdle
    /\ LabelIdle

SetVal ==
    /\ ~LabelPanicked
    /\ \E value \in BOOLEAN : label' = set_val(label, value)
    /\ UNCHANGED <<label_writes, label_parsed, parseVars, nodeVars, docVars, writeVars>>

LabelWriteTo ==
    /\ ~LabelPanicked
    /\ Len(label_writes) < MaxWrites
    /\ label_writes' = Append(label_writes,
                              [self |-> label, tag |-> NoMultiLevelLabels_write_to(label)])
    /\ UNCHANGED <<label, label_parsed, parseVars, nodeVars, docVars, writeVars>>

LabelSetAttributes ==
    /\ ~LabelPanicked
    /\ \E e \in LabelTags :
         LET r == NoMultiLevelLabels_set_attributes(label, e)
         IN  /\ label' = r.node
             /\ label_parsed' = << [tag |-> e, outcome |-> r.outcome, node |-> r.node] >>
    /\ UNCHANGED <<label_writes, parseVars, nodeVars, docVars, writeVars>>

NextLabels == SetVal \/ LabelWriteTo \/ LabelSetAttributes

SpecLabels == InitLabels /\ [][NextLabels]_vars

(***************************************************************************)
(* Properties of xlsx::write (Spec).                                       *)
(***************************************************************************)
Sheets      == spreadsheet.sheets
CallIdx(fn) == { k \in 1..Len(calls) : calls[k].fn = fn }
ArvIdx(path) == { k \in 1..Len(arv) : arv[k].path = path }
InArchive(path) == ArvIdx(path) # {}
AfterLoop   == pc \in { "shared_strings", "styles", "finish", "returned", "panicked" }
                  /\ CallIdx("workbook") # {}
Terminated  == pc \in { "returned", "panicked" }
DrawingSheets(n) == { s \in 1..n : has_drawing_object(Sheets[s]) }
CommentSheets(n) == { s \in 1..n : has_comments(Sheets[s]) }

ChartCalls == SelectSeq(calls, LAMBDA c : c.fn = "chart")

\* C1: the chart writer is called once for every graphic frame of the
\* document, the frame f of sheet s under the id (frames of the sheets before
\* s) + f, so that the ids of the calls are 1, 2, .. in sheet order and then
\* declaration order, without gap or repeat and without a reset between sheets.
C1_ChartIdsRunThrough ==
    /\ \A k \in CallIdx("chart") :
          calls[k].chart_id = TotalCharts(Sheets, calls[k].sheet - 1) + calls[k].item
    /\ \A m \in 1..Len(ChartCalls) : ChartCalls[m].chart_id = m
    /\ AfterLoop =>
          { calls[k].chart_id : k \in CallIdx("chart") } = 1..TotalCharts(Sheets, Len(Sheets))

C1_Witness ==
    /\ pc = "returned"
    /\ Len(Sheets) = 2
    /\ Sheets[1].charts = 1
    /\ Sheets[2].charts = 1
    /\ \E k \in CallIdx("chart") : calls[k].sheet = 2 /\ calls[k].chart_id = 2

\* C2: drawing_id is advanced once for each sheet that owns a drawing object
\* and for no other sheet, comment_id once for each sheet that owns comments
\* and for no other; the k-th sheet owning a drawing object has its drawing
\* part written under drawing id k, the k-th sheet owning comments its
\* comment part under comment id k.
C2_PerSheetIds ==
    /\ pc = "for_sheet" =>
          /\ drawing_id = 1 + Cardinality(DrawingSheets(i))
          /\ comment_id = 1 + Cardinality(CommentSheets(i))
    /\ \A k \in CallIdx("drawing") :
          has_drawing_object(Sheets[calls[k].sheet]) =>
              calls[k].drawing_id = Cardinality(DrawingSheets(calls[k].sheet))
    /\ \A k \in CallIdx("comment") :
          has_comments(Sheets[calls[k].sheet]) =>
              calls[k].comment_id = Cardinality(CommentSheets(calls[k].sheet))

C2_Witness ==
    /\ pc = "returned"
    /\ Len(Sheets) = 2
    /\ ~has_drawing_object(Sheets[1]) /\ has_drawing_object(Sheets[2])
    /\ has_comments(Sheets[1]) /\ has_comments(Sheets[2])
    /\ \E k \in CallIdx("drawing") : calls[k].sheet = 2 /\ calls[k].drawing_id = 1
    /\ \E k \in CallIdx("comment") : calls[k].sheet = 2 /\ calls[k].comment_id = 2

\* C3: once the archive is finalized, every relationship id referenced in
\* the content of a written part has an entry in the part's sibling .rels
\* part, and the target of that entry is a path written during the run.
C3_RelationshipCompleteness ==
    finished =>
        \A k \in 1..Len(arv) : \A id \in arv[k].refs :
            \E r \in ArvIdx(RelsPartOf(arv[k].path)) :
                \E rel \in arv[r].rels : rel.id = id /\ InArchive(rel.target)

\* C4: when a part-writer call fails, no later call is made, the archive is
\* not finalized and write ends returning an error.
C4_AbortAtFirstFailure ==
    /\ \A k \in 1..Len(calls) : ~calls[k].ok => k = Len(calls)
    /\ faulted => ~finished
    /\ (faulted /\ Terminated) => result = "Err"

\* C5: no failure of a part writer ends the run in a panic.
C5_NoPanic == result # "panic"

\* The stages of the assembly, numbered in the order of spec section 4.4.
SpecStage(fn) ==
    CASE fn = "content_types"                 -> 1
      [] fn = "doc_props_core"                -> 2
      [] fn = "doc_props_app"                 -> 3
      [] fn = "vba_project_bin"               -> 4
      [] fn \in { "rels", "workbook_rels" }   -> 5
      [] fn = "theme"                         -> 6
      [] fn = "workbook"                      -> 7
      [] fn = "shared_strings"                -> 9
      [] fn = "styles"                        -> 10
      [] fn = "finish"                        -> 11
      [] OTHER                                -> 8

\* The same stages with the application properties before the core properties.
CodeStage(fn) ==
    CASE fn = "doc_props_app"  -> 2
      [] fn = "doc_props_core" -> 3
      [] OTHER                 -> SpecStage(fn)

\* C6 as stated: the calls follow the order ContentTypes, CoreProps,
\* AppProps, VbaBinaryIfPresent, Relationships, Theme, Workbook, sheet loop,
\* SharedStrings, Styles, Finalize.
C6_SpecOrder ==
    \A k \in 1..(Len(calls) - 1) : SpecStage(calls[k].fn) <= SpecStage(calls[k + 1].fn)

\* C6 amended: the calls follow the order ContentTypes, AppProps, CoreProps,
\* VbaBinaryIfPresent, Relationships, Theme, Workbook, sheet loop,
\* SharedStrings, Styles, Finalize; no stage is entered before an earlier
\* one, and a run that returns Ok went through every stage.
C6_CodeOrder ==
    /\ \A k \in 1..(Len(calls) - 1) : CodeStage(calls[k].fn) <= CodeStage(calls[k + 1].fn)
    /\ result = "Ok" =>
          { CodeStage(calls[k].fn) : k \in 1..Len(calls) }
              = (1..11) \ (IF Len(Sheets) = 0 THEN { 8 } ELSE {})

C6_Witness ==
    /\ result = "Ok"
    /\ Len(Sheets) = 2
    /\ \E a \in CallIdx("doc_props_app"), c \in CallIdx("doc_props_core") : a < c

\* C7: the shared-string table and the style table are each flushed at most
\* once, after the worksheet body of every sheet has been serialized and
\* holding what every sheet interned; the archive is finalized only after
\* both flushes, and then holds each of the two parts exactly once.
C7_FlushAfterSheets ==
    /\ Cardinality(CallIdx("shared_strings")) <= 1
    /\ Cardinality(CallIdx("styles")) <= 1
    /\ \A f \in CallIdx("shared_strings") \cup CallIdx("styles") :
          /\ \A w \in CallIdx("worksheet") : w < f
          /\ { calls[w].sheet : w \in CallIdx("worksheet") } = 1..Len(Sheets)
    /\ \A k \in ArvIdx(SharedStringsPath) \cup ArvIdx(StylesPath) :
          arv[k].data = 1..Len(Sheets)
    /\ \A f \in CallIdx("finish") :
          /\ \E a \in CallIdx("shared_strings") : a < f /\ calls[a].ok
          /\ \E b \in CallIdx("styles") : b < f /\ calls[b].ok
    /\ finished =>
          /\ Cardinality(ArvIdx(SharedStringsPath)) = 1
          /\ Cardinality(ArvIdx(StylesPath)) = 1

C7_Witness ==
    /\ finished
    /\ Len(Sheets) = 2
    /\ \E k \in ArvIdx(SharedStringsPath) : arv[k].data = { 1, 2 }
    /\ \E k \in ArvIdx(StylesPath) : arv[k].data = { 1, 2 }

\* The document of the scenario: sheet 0 with one chart and no comments,
\* sheet 1 with no chart and comments.
IsScenario ==
    Sheets = << [charts |-> 1, pics |-> 0, comments |-> FALSE],
                [charts |-> 0, pics |-> 0, comments |-> TRUE] >>

\* C8: for the scenario document a run hands chart id 1 to the chart writer
\* once and no other chart id, advances comment_id once, in the iteration of
\* sheet 1, whose comment part is written under comment id 1, and, when every
\* part writer succeeded, ends with xl/charts/chart1.xml and
\* xl/comments/comment1.xml in the archive, each the target of an entry of
\* the .rels part of the drawing and of sheet 1.
C8_Scenario ==
    IsScenario =>
        /\ \A k \in CallIdx("chart") : calls[k].chart_id = 1 /\ calls[k].sheet = 1
        /\ Cardinality(CallIdx("chart")) <= 1
        /\ AfterLoop => Cardinality(CallIdx("chart")) = 1
        /\ comment_id = (IF CallIdx("workbook") = {} \/ pc = "setup" THEN 0
                         ELSE IF i = 2 \/ (i = 1 /\ pc \in { "for_graphic_frame", "for_picture" })
                              THEN 2 ELSE 1)
        /\ \A k \in CallIdx("comment") \cup CallIdx("vml_drawing") \cup CallIdx("worksheet_rels") :
              calls[k].comment_id = 1
        /\ (pc = "returned" /\ ~faulted) =>
              /\ Cardinality(ArvIdx(ChartPath(1))) = 1
              /\ Cardinality(ArvIdx(CommentPath(1))) = 1
              /\ \E r \in ArvIdx(DrawingRelsPath(1)) :
                    \E rel \in arv[r].rels : rel.target = ChartPath(1)
              /\ \E r \in ArvIdx(SheetRelsPath(2)) :
                    \E rel \in arv[r].rels : rel.target = CommentPath(1)

C8_Witness ==
    /\ IsScenario
    /\ pc = "returned"
    /\ ~faulted
    /\ finished
    /\ InArchive(ChartPath(1))
    /\ InArchive(CommentPath(1))

\* C9: no archive path is written twice in a run.
C9_PathsUnique ==
    \A k \in 1..Len(arv), l \in 1..Len(arv) : arv[k].path = arv[l].path => k = l

C9_Witness ==
    /\ finished
    /\ Len(Sheets) = 2
    /\ InArchive(DrawingPath(2))
    /\ InArchive(DrawingRelsPath(2))
    /\ InArchive(CommentPath(2))
    /\ InArchive(ChartPath(2))
    /\ InArchive(SheetRelsPath(2))

\* the calls made for sheet s (1-based) by the writers in fns
SheetCalls(s, fns) == { k \in 1..Len(calls) : calls[k].sheet = s /\ calls[k].fn \in fns }
DrawingStamped == { "worksheet_rels", "drawing", "drawing_rels" }
CommentStamped == { "worksheet_rels", "comment", "vml_drawing" }

\* C14: within the iteration of one sheet the worksheet relationship part,
\* the drawing part and the drawing relationship part are handed the same
\* drawing_id, and the worksheet relationship part, the comment part and the
\* VML drawing part the same comment_id; until the last of these parts of the
\* current sheet is written the two counters still hold the handed values.
C14_SameIdsWithinSheet ==
    /\ \A s \in 1..Len(Sheets) :
          /\ \A k \in SheetCalls(s, DrawingStamped), l \in SheetCalls(s, DrawingStamped) :
                calls[k].drawing_id = calls[l].drawing_id
          /\ \A k \in SheetCalls(s, CommentStamped), l \in SheetCalls(s, CommentStamped) :
                calls[k].comment_id = calls[l].comment_id
    /\ pc \in { "worksheet_rels", "drawing", "drawing_rels", "comment", "vml_drawing",
                "advance_drawing_id" } =>
          /\ \A k \in SheetCalls(i + 1, DrawingStamped) : calls[k].drawing_id = drawing_id
          /\ \A k \in SheetCalls(i + 1, CommentStamped) : calls[k].comment_id = comment_id

C14_Witness ==
    /\ pc = "advance_drawing_id"
    /\ i = 1
    /\ drawing_id = 2
    /\ comment_id = 2
    /\ has_drawing_object(worksheet)
    /\ has_comments(worksheet)
    /\ Cardinality(SheetCalls(2, DrawingStamped)) = 3
    /\ Cardinality(SheetCalls(2, CommentStamped)) = 3

\* C15: the three counters are 1 when the sheet loop starts; afterwards a
\* step changes at most one of them, by exactly +1 and at its own advance
\* site (drawing_id and comment_id at their if statements, chart_id after a
\* chart write), and no other step, a part-writer call included, changes any.
C15_CountersFrame ==
    [][ /\ pc = "setup" => (chart_id' = 1 /\ drawing_id' = 1 /\ comment_id' = 1)
        /\ pc # "setup" =>
              /\ chart_id' \in { chart_id, chart_id + 1 }
              /\ drawing_id' \in { drawing_id, drawing_id + 1 }
              /\ comment_id' \in { comment_id, comment_id + 1 }
              /\ chart_id' # chart_id =>
                    (pc = "for_graphic_frame" /\ drawing_id' = drawing_id
                                              /\ comment_id' = comment_id)
              /\ drawing_id' # drawing_id =>
                    (pc = "advance_drawing_id" /\ chart_id' = chart_id
                                               /\ comment_id' = comment_id)
              /\ comment_id' # comment_id =>
                    (pc = "advance_comment_id" /\ chart_id' = chart_id
                                               /\ drawing_id' = drawing_id)
      ]_vars

C15_Witness ==
    /\ pc = "returned"
    /\ chart_id = 3
    /\ drawing_id = 3
    /\ comment_id = 2

\* C20: the chart_id handed to the drawing relationship writer of a sheet is
\* the id of the sheet's first chart part; the sheet's chart parts are written
\* under that id, the next one and so on, and between the sheet's drawing
\* relationship call and each of its chart calls no call is made for another
\* sheet.
C20_ChartIdsMatchDrawingRels ==
    \A k \in CallIdx("chart") :
        \E d \in SheetCalls(calls[k].sheet, { "drawing_rels" }) :
            /\ d < k
            /\ calls[k].chart_id = calls[d].chart_id + calls[k].item - 1
            /\ \A m \in d..k : calls[m].sheet = calls[k].sheet

C20_Witness ==
    /\ pc = "returned"
    /\ Len(Sheets) = 2
    /\ Sheets[1].charts = 1
    /\ Sheets[2].charts = 1
    /\ \E d \in SheetCalls(2, { "drawing_rels" }) : calls[d].chart_id = 2
    /\ \E k \in SheetCalls(2, { "chart" }) : calls[k].chart_id = 2

(***************************************************************************)
(* Properties of EffectList::set_attributes (SpecParse).                   *)
(***************************************************************************)
\* C10: a stream that ends before the closing a:effectLst tag, or that is
\* malformed, ends the parse with an error value handed to the caller: the
\* parse never panics.
C10_ParseNeverPanics == parse \notin { "panic_eof", "panic_err" }

\* the elements open inside a:effectLst just before event k of stream s
RECURSIVE OpenAt(_, _)
OpenAt(s, k) ==
    IF k = 1 THEN << >>
    ELSE LET o == OpenAt(s, k - 1)
             e == s[k - 1]
         IN  CASE e.type = "Start" -> Append(o, e.name)
               [] e.type = "End" /\ o # << >> -> SubSeq(o, 1, Len(o) - 1)
               [] OTHER -> o

\* the consumed events that open a child `tag` directly under a:effectLst
ChildTags(tag) ==
    { k \in 1..pos : /\ reader[k].type \in { "Start", "Empty" }
                     /\ reader[k].name = tag
                     /\ OpenAt(reader, k) = << >> }

\* the consumed events that open an element `tag` outside any unknown element
OutsideUnknown(tag) ==
    { k \in 1..pos : /\ reader[k].type \in { "Start", "Empty" }
                     /\ reader[k].name = tag
                     /\ \A n \in 1..Len(OpenAt(reader, k)) : OpenAt(reader, k)[n] # "a:ext" }

\* C16: when the parse returns, every known child that appears directly
\* between the opening and the closing a:effectLst tag, as a paired start tag
\* or as a self-closing tag, is populated.
C16_PopulatesBothForms ==
    parse = "returned" =>
        /\ ChildTags("a:glow") # {} => effect_list.glow
        /\ ChildTags("a:outerShdw") # {} => effect_list.outer_shadow
        /\ ChildTags("a:softEdge") # {} => effect_list.soft_edge

\* C17: the parse returns at the first closing a:effectLst tag, having
\* consumed nothing after it, and an unknown element with all it contains
\* leaves the node as it is: a child is populated only by a known child tag
\* outside any unknown element.
C17_UnknownSkipped ==
    /\ parse = "returned" =>
          /\ reader[pos] = Ev("End", "a:effectLst")
          /\ \A k \in 1..(pos - 1) : reader[k] # Ev("End", "a:effectLst")
    /\ effect_list.glow => OutsideUnknown("a:glow") # {}
    /\ effect_list.outer_shadow => OutsideUnknown("a:outerShdw") # {}
    /\ effect_list.soft_edge => OutsideUnknown("a:softEdge") # {}


(***************************************************************************)
(* Properties of EffectList::write_to and of the round trip (SpecEffect).  *)
(***************************************************************************)
SetNames == { set_log[k] : k \in 1..Len(set_log) }

\* positions of the opening (paired or self-closing) tags named tag in w
TagsAt(w, tag) ==
    { k \in 1..Len(w) : w[k].type \in { "Start", "Empty" } /\ w[k].name = tag }

\* C11: parsing the output of write_to(x) gives an EffectList with the same
\* children present as x, without a panic, and writing the parsed value
\* again gives the output of write_to(x).
C11_RoundTrip ==
    /\ parse \notin { "panic_eof", "panic_err" }
    /\ (writer # << >> /\ parse = "returned") =>
           /\ effect_list = source
           /\ pos = Len(reader)
    /\ rewritten # << >> => rewritten = writer

C11_Witness ==
    /\ source = [glow |-> TRUE, outer_shadow |-> TRUE, soft_edge |-> TRUE]
    /\ effect_list = source
    /\ rewritten # << >>
    /\ rewritten = writer

\* C18: write_to emits no tag for an absent child and one tag for a present
\* one, in the order a:glow, a:outerShdw, a:softEdge, between the opening
\* and the closing a:effectLst tag, whatever the order of the setter calls.
C18_FixedChildOrder ==
    writer # << >> =>
        LET g == TagsAt(writer, "a:glow")
            o == TagsAt(writer, "a:outerShdw")
            e == TagsAt(writer, "a:softEdge")
        IN  /\ Cardinality(g) = IF "set_glow" \in SetNames THEN 1 ELSE 0
            /\ Cardinality(o) = IF "set_outer_shadow" \in SetNames THEN 1 ELSE 0
            /\ Cardinality(e) = IF "set_soft_edge" \in SetNames THEN 1 ELSE 0
            /\ \A a \in g : \A b \in o \cup e : a < b
            /\ \A a \in o : \A b \in e : a < b
            /\ \A a \in g \cup o \cup e : 1 < a /\ a < Len(writer)
            /\ TagsAt(writer, "a:effectLst") = { 1 }
            /\ writer[Len(writer)] = Ev("End", "a:effectLst")
            /\ \A k \in 1..(Len(writer) - 1) : writer[k] # Ev("End", "a:effectLst")

C18_Witness ==
    /\ set_log = << "set_soft_edge", "set_outer_shadow", "set_glow" >>
    /\ writer # << >>
    /\ \A a \in TagsAt(writer, "a:glow") :
           \A b \in TagsAt(writer, "a:softEdge") : a < b

\* C19 as stated: a node without child is written as one self-closing
\* a:effectLst tag, any other node as opening tag, children, closing tag.
C19_SelfClosingWhenEmpty ==
    writer # << >> =>
        IF source = EffectListDefault
        THEN writer = << Ev("Empty", "a:effectLst") >>
        ELSE /\ Head(writer) = Ev("Start", "a:effectLst")
             /\ writer[Len(writer)] = Ev("End", "a:effectLst")

\* C19 as the code has it: every node is written as an opening a:effectLst
\* tag, its children and a closing tag; a node without child is written as
\* the opening tag followed at once by the closing tag.
C19_AlwaysPaired ==
    writer # << >> =>
        /\ Head(writer) = Ev("Start", "a:effectLst")
        /\ writer[Len(writer)] = Ev("End", "a:effectLst")
        /\ source = EffectListDefault =>
               writer = << Ev("Start", "a:effectLst"), Ev("End", "a:effectLst") >>

C19_Witness ==
    /\ source = EffectListDefault
    /\ writer = << Ev("Start", "a:effectLst"), Ev("End", "a:effectLst") >>
    /\ parse = "returned"


(***************************************************************************)
(* Properties of NoMultiLevelLabels (SpecLabels).                          *)
(***************************************************************************)
HasAttribute(e, name) == get_attribute(e, name) # << >>

\* C12: a NoMultiLevelLabels whose val was never set, by set_val or by a
\* parse, is written without val attribute: a written tag has the attribute
\* only if the node it was written from had its val set.
C12_DefaultOmitted ==
    \A k \in 1..Len(label_writes) :
        HasAttribute(label_writes[k].tag, "val") => label_writes[k].self.has_value

\* C13: a node whose val was set to b is written as a c:noMultiLvlLbl tag
\* with val="1" for true and val="0" for false, and set_attributes on that
\* tag gives, without panic, a node whose get_val() is b.
C13_BooleanRoundTrip ==
    \A k \in 1..Len(label_writes) :
        LET w == label_writes[k] IN
        w.self.has_value =>
            /\ w.tag.name = "c:noMultiLvlLbl"
            /\ get_attribute(w.tag, "val") = << IF w.self.value THEN "1" ELSE "0" >>
            /\ \A n \in 1..Len(label_parsed) :
                   label_parsed[n].tag = w.tag =>
                       /\ label_parsed[n].outcome = "ok"
                       /\ get_val(label_parsed[n].node) = w.self.value

C13_Witness ==
    /\ label_parsed # << >>
    /\ label_parsed[1].outcome = "ok"
    /\ get_attribute(label_parsed[1].tag, "val") = << "1" >>
    /\ get_val(label)
    /\ \E k \in 1..Len(label_writes) :
           /\ label_writes[k].self = [has_value |-> TRUE, value |-> TRUE]
           /\ label_writes[k].tag = label_parsed[1].tag

====
